---- MODULE Spec2Model ----
(***************************************************************************)
(* connect-db (src/src/main.rs): load two secret files, substitute the     *)
(* credentials into the URL template, parse the URL into connection        *)
(* parameters, and replace the process image with psql.                    *)
(*                                                                         *)
(* Text that the program splits, matches or rewrites (URLs, credentials)   *)
(* is a sequence of one-character strings; text that is only carried       *)
(* around (paths, messages) is a TLA+ string.  An Option<T> is a sequence  *)
(* of length 0 (None) or 1 (Some).                                         *)
(***************************************************************************)
EXTENDS Integers, Sequences, FiniteSets, TLC

VARIABLES
    database_name,  \* Args.database_name
    fs,             \* the two secret files, keyed by path
    pc,             \* position of the single thread of control
    config,         \* Option<DatabaseConfig>      (main, line 152)
    credentials,    \* Option<DatabaseCredentials> (main, line 152)
    database_url,   \* Option<String>              (main, line 155)
    params,         \* Option<ConnectionParams>    (main, line 162)
    cmd,            \* Option<exec::Command>       (connect_with_psql, line 125)
    stdout,         \* lines printed so far
    env,            \* Option<value of PGPASSWORD in the process environment>
    image,          \* program that owns the process
    error,          \* Option<anyhow::Error> travelling up to main
    exit_code       \* Option<exit status of the program>

vars == <<database_name, fs, pc, config, credentials, database_url, params,
          cmd, stdout, env, image, error, exit_code>>

-----------------------------------------------------------------------------
(* Bounds *)

MaxBody == 5        \* longest URL body (after the scheme) enumerated exhaustively
MaxCred == 1        \* longest credential value enumerated exhaustively

-----------------------------------------------------------------------------
(* Text helpers *)

None == <<>>
Some(x) == <<x>>

SchemeLong == <<"p","o","s","t","g","r","e","s","q","l",":","/","/">>
SchemeShort == <<"p","o","s","t","g","r","e","s",":","/","/">>
TokenUsername == <<"{","{","u","s","e","r","n","a","m","e","}","}">>
TokenPassword == <<"{","{","p","a","s","s","w","o","r","d","}","}">>

\* str::starts_with
StartsWith(s, p) == Len(s) >= Len(p) /\ SubSeq(s, 1, Len(p)) = p

\* str::strip_prefix: Some(rest) when s starts with p, else None
StripPrefix(s, p) ==
    IF StartsWith(s, p) THEN Some(SubSeq(s, Len(p) + 1, Len(s))) ELSE None

\* str::replace with a non-empty pattern: every non-overlapping match,
\* found left to right, is replaced; the inserted text is not rescanned.
RECURSIVE Replace(_, _, _)
Replace(s, from, to) ==
    IF Len(s) < Len(from) THEN s
    ELSE IF SubSeq(s, 1, Len(from)) = from
         THEN to \o Replace(SubSeq(s, Len(from) + 1, Len(s)), from, to)
         ELSE <<Head(s)>> \o Replace(Tail(s), from, to)

\* str::split(char).collect(): the segments between the occurrences of c
RECURSIVE SplitFrom(_, _, _)
SplitFrom(s, c, cur) ==
    IF s = <<>> THEN <<cur>>
    ELSE IF Head(s) = c THEN <<cur>> \o SplitFrom(Tail(s), c, <<>>)
         ELSE SplitFrom(Tail(s), c, Append(cur, Head(s)))

\* variant that drops empty segments
SplitSkipEmpty(s, c) == SelectSeq(SplitFrom(s, c, <<>>), LAMBDA x : x # <<>>)

Split(s, c) == SplitFrom(s, c, <<>>)

-----------------------------------------------------------------------------
(* load_database_config *)

ConfigPath(name) == ".vault/secrets/" \o name \o ".db.json"
CredsPath(name) == ".vault/secrets/" \o name \o ".db-role.json"

Missing == [kind |-> "missing"]
Malformed == [kind |-> "malformed"]
Json(v) == [kind |-> "json", value |-> v]

\* fs::read_to_string(path).with_context(msg)
ReadToString(files, path, msg) ==
    IF files[path].kind = "missing"
    THEN [ok |-> FALSE, err |-> [msg |-> msg, detail |-> path]]
    ELSE [ok |-> TRUE, content |-> files[path]]

\* serde_json::from_str(content).with_context(msg)
FromStr(content, path, msg) ==
    IF content.kind = "json"
    THEN [ok |-> TRUE, value |-> content.value]
    ELSE [ok |-> FALSE, err |-> [msg |-> msg, detail |-> path]]

\* variant that parses the config file before it reads the credentials file
load_database_config_interleaved(files, name) ==
    LET config_path == ConfigPath(name)
        creds_path == CredsPath(name)
        config_content == ReadToString(files, config_path, "Failed to read config file: ")
        creds_content == ReadToString(files, creds_path, "Failed to read credentials file: ")
    IN  IF ~config_content.ok THEN [ok |-> FALSE, err |-> config_content.err]
        ELSE LET cfg == FromStr(config_content.content, config_path, "Failed to parse config file: ")
             IN  IF ~cfg.ok THEN [ok |-> FALSE, err |-> cfg.err]
                 ELSE IF ~creds_content.ok THEN [ok |-> FALSE, err |-> creds_content.err]
                 ELSE LET crd == FromStr(creds_content.content, creds_path,
                                         "Failed to parse credentials file: ")
                      IN  IF ~crd.ok THEN [ok |-> FALSE, err |-> crd.err]
                          ELSE [ok |-> TRUE, config |-> cfg.value, credentials |-> crd.value]

load_database_config(files, name) ==
    LET config_path == ConfigPath(name)
        creds_path == CredsPath(name)
        config_content == ReadToString(files, config_path, "Failed to read config file: ")
        creds_content == ReadToString(files, creds_path, "Failed to read credentials file: ")
    IN  IF ~config_content.ok THEN [ok |-> FALSE, err |-> config_content.err]
        ELSE IF ~creds_content.ok THEN [ok |-> FALSE, err |-> creds_content.err]
        ELSE LET cfg == FromStr(config_content.content, config_path, "Failed to parse config file: ")
                 crd == FromStr(creds_content.content, creds_path, "Failed to parse credentials file: ")
             IN  IF ~cfg.ok THEN [ok |-> FALSE, err |-> cfg.err]
                 ELSE IF ~crd.ok THEN [ok |-> FALSE, err |-> crd.err]
                 ELSE [ok |-> TRUE, config |-> cfg.value, credentials |-> crd.value]

-----------------------------------------------------------------------------
(* parse_connection_url *)

\* anyhow errors are a message and the value formatted into it
ErrScheme == "Invalid PostgreSQL URL format: "
ErrAt == "Invalid URL format: missing '@' separator"
ErrAuth == "Invalid auth format: expected 'username:password'"
ErrHostDb == "Invalid host format: expected 'host:port/database'"
ErrHostPort == "Invalid host format: expected 'host:port'"

\* variant that checks the host part before the auth part
parse_connection_url_host_first(db_url) ==
    LET stripped == IF StripPrefix(db_url, SchemeLong) # None
                    THEN StripPrefix(db_url, SchemeLong)
                    ELSE StripPrefix(db_url, SchemeShort)
    IN  IF stripped = None THEN [ok |-> FALSE, err |-> [msg |-> ErrScheme, detail |-> db_url]]
        ELSE
        LET url == stripped[1]
            parts == Split(url, "@")
        IN  IF Len(parts) # 2 THEN [ok |-> FALSE, err |-> [msg |-> ErrAt, detail |-> <<>>]]
            ELSE
            LET auth_parts == Split(parts[1], ":")
                host_db_parts == Split(parts[2], "/")
            IN  IF Len(host_db_parts) # 2 THEN [ok |-> FALSE, err |-> [msg |-> ErrHostDb, detail |-> <<>>]]
                ELSE
                LET host_port_parts == Split(host_db_parts[1], ":")
                IN  IF Len(host_port_parts) # 2
                    THEN [ok |-> FALSE, err |-> [msg |-> ErrHostPort, detail |-> <<>>]]
                    ELSE IF Len(auth_parts) # 2
                    THEN [ok |-> FALSE, err |-> [msg |-> ErrAuth, detail |-> <<>>]]
                    ELSE [ok |-> TRUE,
                          params |-> [host |-> host_port_parts[1],
                                      port |-> host_port_parts[2],
                                      username |-> auth_parts[1],
                                      password |-> auth_parts[2],
                                      database |-> host_db_parts[2]]]

parse_connection_url(db_url) ==
    LET stripped == IF StripPrefix(db_url, SchemeLong) # None
                    THEN StripPrefix(db_url, SchemeLong)
                    ELSE StripPrefix(db_url, SchemeShort)
    IN  IF stripped = None THEN [ok |-> FALSE, err |-> [msg |-> ErrScheme, detail |-> db_url]]
        ELSE
        LET url == stripped[1]
            parts == Split(url, "@")
        IN  IF Len(parts) # 2 THEN [ok |-> FALSE, err |-> [msg |-> ErrAt, detail |-> <<>>]]
            ELSE
            LET auth_part == parts[1]
                host_part == parts[2]
                auth_parts == Split(auth_part, ":")
            IN  IF Len(auth_parts) # 2 THEN [ok |-> FALSE, err |-> [msg |-> ErrAuth, detail |-> <<>>]]
                ELSE
                LET host_db_parts == Split(host_part, "/")
                IN  IF Len(host_db_parts) # 2 THEN [ok |-> FALSE, err |-> [msg |-> ErrHostDb, detail |-> <<>>]]
                    ELSE
                    LET host_port_parts == Split(host_db_parts[1], ":")
                    IN  IF Len(host_port_parts) # 2
                        THEN [ok |-> FALSE, err |-> [msg |-> ErrHostPort, detail |-> <<>>]]
                        ELSE [ok |-> TRUE,
                              params |-> [host |-> host_port_parts[1],
                                          port |-> host_port_parts[2],
                                          username |-> auth_parts[1],
                                          password |-> auth_parts[2],
                                          database |-> host_db_parts[2]]]

-----------------------------------------------------------------------------
(* connect_with_psql *)

\* format!("postgresql://{}:{}@{}:{}/{}", ...)
ConnString(p) ==
    SchemeLong \o p.username \o <<":">> \o p.password \o <<"@">> \o p.host
        \o <<":">> \o p.port \o <<"/">> \o p.database

\* the two println! calls
ConnectLines(p) ==
    << <<"Connection string: ", ConnString(p)>>,
       <<"Connecting to database ", p.database, p.host, p.port>> >>

\* variant that also hands the password over as an argument
PsqlCommandWithPassword(p) ==
    [program |-> "psql",
     args |-> << <<"-","h">>, p.host, <<"-","p">>, p.port,
                 <<"-","U">>, p.username, <<"-","d">>, p.database,
                 <<"-","W">>, p.password >>]

\* Command::new("psql").arg(..)...
PsqlCommand(p) ==
    [program |-> "psql",
     args |-> << <<"-","h">>, p.host, <<"-","p">>, p.port,
                 <<"-","U">>, p.username, <<"-","d">>, p.database >>]

ErrExec == "Failed to exec psql: "

\* what cmd.exec() can report when the image is not replaced
OsErrors == {"ENOENT", "EACCES"}

-----------------------------------------------------------------------------
(* main *)

\* variant with the two credentials exchanged
SubstituteSwapped(db_url, c) ==
    Replace(Replace(db_url, TokenUsername, c.password), TokenPassword, c.username)

\* .replace("{{username}}", &credentials.username).replace("{{password}}", &credentials.password)
Substitute(db_url, c) ==
    Replace(Replace(db_url, TokenUsername, c.username), TokenPassword, c.password)

\* exit status of a main that returns Err
ExitFailure == 1

MainLoad ==
    /\ pc = "load"
    /\ LET r == load_database_config(fs, database_name)
       IN  IF r.ok
           THEN /\ config' = Some(r.config)
                /\ credentials' = Some(r.credentials)
                /\ pc' = "substitute"
                /\ error' = error
           ELSE /\ error' = Some(r.err)
                /\ pc' = "return_err"
                /\ UNCHANGED <<config, credentials>>
    /\ UNCHANGED <<database_name, fs, database_url, params, cmd, stdout, env,
                   image, exit_code>>

MainSubstitute ==
    /\ pc = "substitute"
    /\ database_url' = Some(Substitute(config[1].data.db_url, credentials[1]))
    /\ pc' = "parse"
    /\ UNCHANGED <<database_name, fs, config, credentials, params, cmd, stdout,
                   env, image, error, exit_code>>

MainParse ==
    /\ pc = "parse"
    /\ LET r == parse_connection_url(database_url[1])
       IN  IF r.ok
           THEN /\ params' = Some(r.params)
                /\ pc' = "println"
                /\ error' = error
           ELSE /\ error' = Some(r.err)
                /\ pc' = "return_err"
                /\ params' = params
    /\ UNCHANGED <<database_name, fs, config, credentials, database_url, cmd,
                   stdout, env, image, exit_code>>

\* variant with set_var moved in front of the println! calls
ConnectPrintlnAfterSetVar ==
    /\ pc = "println"
    /\ env' = Some(params[1].password)
    /\ stdout' = stdout \o ConnectLines(params[1])
    /\ pc' = "command"
    /\ UNCHANGED <<database_name, fs, config, credentials, database_url, params,
                   cmd, image, error, exit_code>>

ConnectPrintln ==
    /\ pc = "println"
    /\ stdout' = stdout \o ConnectLines(params[1])
    /\ pc' = "command"
    /\ UNCHANGED <<database_name, fs, config, credentials, database_url, params,
                   cmd, env, image, error, exit_code>>

ConnectCommand ==
    /\ pc = "command"
    /\ cmd' = Some(PsqlCommand(params[1]))
    /\ pc' = "set_var"
    /\ UNCHANGED <<database_name, fs, config, credentials, database_url, params,
                   stdout, env, image, error, exit_code>>

ConnectSetVar ==
    /\ pc = "set_var"
    /\ env' = Some(params[1].password)
    /\ pc' = "exec"
    /\ UNCHANGED <<database_name, fs, config, credentials, database_url, params,
                   cmd, stdout, image, error, exit_code>>

\* variant that runs psql as a child when exec fails and passes its status on
ConnectExecFallback ==
    /\ pc = "exec"
    /\ \/ /\ image' = cmd[1].program
          /\ pc' = "replaced"
          /\ exit_code' = exit_code
       \/ /\ exit_code' = Some(0)
          /\ pc' = "exited"
          /\ image' = image
    /\ UNCHANGED <<database_name, fs, config, credentials, database_url, params,
                   cmd, stdout, env, error>>

\* cmd.exec(): either the image is replaced and nothing of this program runs
\* again, or the call returns the OS error and connect_with_psql returns Err.
ConnectExec ==
    /\ pc = "exec"
    /\ \/ /\ image' = cmd[1].program
          /\ pc' = "replaced"
          /\ error' = error
       \/ \E os \in OsErrors :
            /\ error' = Some([msg |-> ErrExec, detail |-> os])
            /\ pc' = "return_err"
            /\ image' = image
    /\ UNCHANGED <<database_name, fs, config, credentials, database_url, params,
                   cmd, stdout, env, exit_code>>

\* the `?` in main hands the Err to the runtime, which exits with failure
MainReturnErr ==
    /\ pc = "return_err"
    /\ exit_code' = Some(ExitFailure)
    /\ pc' = "exited"
    /\ UNCHANGED <<database_name, fs, config, credentials, database_url, params,
                   cmd, stdout, env, image, error>>

Next ==
    \/ MainLoad
    \/ MainSubstitute
    \/ MainParse
    \/ ConnectPrintln
    \/ ConnectCommand
    \/ ConnectSetVar
    \/ ConnectExec
    \/ MainReturnErr

-----------------------------------------------------------------------------
(* Inputs: the command-line argument and the content of the two files *)

Strs(S, n) == UNION {[1..k -> S] : k \in 0..n}

Names == {"app", "orders"}

SchemeOther == <<"m","y","s","q","l",":","/","/">>
Schemes == {SchemeLong, SchemeShort, SchemeOther}

UrlChars == {"@", ":", "/", "a"}

UrlTwoAts ==
    SchemeLong \o <<"u",":","p","@","h","1","@","h","2",":","5","4","3","2","/","d","b">>
UrlQuery ==
    SchemeLong \o <<"u",":","p","@","h",":","5","/","d","b","?","s","=","1">>
UrlTrailingSlash ==
    SchemeLong \o <<"u",":","p","@","h",":","5","/","d","b","/">>

Urls ==
    {s \o b : s \in Schemes, b \in Strs(UrlChars, MaxBody)}
        \cup {UrlTwoAts, UrlQuery, UrlTrailingSlash}

\* the template main's round trip is stated for
Template(host, port, database) ==
    SchemeLong \o TokenUsername \o <<":">> \o TokenPassword \o <<"@">> \o host
        \o <<":">> \o port \o <<"/">> \o database

CredChars == {"s", "@", ":", "/"}
CredVals ==
    Strs(CredChars, MaxCred)
        \cup {TokenUsername, TokenPassword, <<"p",":","a">>, <<"s","v","c">>,
              <<"s","3","c","r","3","t">>}

HostVals == {<<"d","b",".","i">>, <<>>, <<"h",":">>, <<"a","/","b">>, <<"h","@">>,
             TokenUsername}
PortVals == {<<"5","4","3","2">>, TokenPassword}
DbVals == {<<"a","p","p">>, <<>>, TokenUsername}

DefaultCreds == [username |-> <<"s","v","c">>, password |-> <<"s","3","c","r","3","t">>]
DefaultTemplate == Template(<<"d","b",".","i">>, <<"5","4","3","2">>, <<"a","p","p">>)

ConfigOf(t) == Json([data |-> [db_url |-> t]])

Files(name, cfg, creds) ==
    [p \in {ConfigPath(name), CredsPath(name)} |->
        IF p = ConfigPath(name) THEN cfg ELSE creds]

\* every combination of the two files being missing, malformed or valid
LoadInputs ==
    {<<n, Files(n, cfg, crd)>> :
        n \in Names,
        cfg \in {Missing, Malformed, ConfigOf(DefaultTemplate)},
        crd \in {Missing, Malformed, Json(DefaultCreds)}}

\* arbitrary resolved URLs: templates without placeholders
UrlInputs ==
    {<<"app", Files("app", ConfigOf(u), Json(DefaultCreds))>> : u \in Urls}

\* the round-trip template with arbitrary credentials
TemplateInputs ==
    {<<"app", Files("app", ConfigOf(Template(h, p, d)),
                    Json([username |-> u, password |-> w]))>> :
        h \in HostVals, p \in PortVals, d \in DbVals, u \in CredVals, w \in CredVals}

Init ==
    /\ \E in \in LoadInputs \cup UrlInputs \cup TemplateInputs :
         /\ database_name = in[1]
         /\ fs = in[2]
    /\ pc = "load"
    /\ config = None
    /\ credentials = None
    /\ database_url = None
    /\ params = None
    /\ cmd = None
    /\ stdout = <<>>
    /\ env = None
    /\ image = "connect-db"
    /\ error = None
    /\ exit_code = None

Spec == Init /\ [][Next]_vars

-----------------------------------------------------------------------------
(* Vocabulary of the properties *)

Count(s, c) == Cardinality({i \in 1..Len(s) : s[i] = c})

Contains(s, sub) ==
    \E i \in 1..(Len(s) - Len(sub) + 1) : SubSeq(s, i, i + Len(sub) - 1) = sub

HasPrefix(s, p) == Len(s) >= Len(p) /\ \A i \in 1..Len(p) : s[i] = p[i]

Reserved == {"@", ":", "/"}
Plain(s) == \A i \in 1..Len(s) : s[i] \notin Reserved
TokenFree(s) == ~Contains(s, TokenUsername) /\ ~Contains(s, TokenPassword)

\* what the files of this run hold
ConfigFile == fs[ConfigPath(database_name)]
CredsFile == fs[CredsPath(database_name)]
BothValid == ConfigFile.kind = "json" /\ CredsFile.kind = "json"
InTemplate == ConfigFile.value.data.db_url
InCreds == CredsFile.value

\* main has passed line 162: parse_connection_url has returned
ParseDone ==
    /\ database_url # None
    /\ pc # "parse"

ErrMsg == IF error = None THEN "" ELSE error[1].msg

\* the part of a URL after its scheme; None when the scheme is not accepted
Body(u) ==
    IF HasPrefix(u, SchemeLong) THEN Some(SubSeq(u, Len(SchemeLong) + 1, Len(u)))
    ELSE IF HasPrefix(u, SchemeShort) THEN Some(SubSeq(u, Len(SchemeShort) + 1, Len(u)))
    ELSE None

FirstIndex(s, c) == CHOOSE i \in 1..Len(s) : s[i] = c /\ \A j \in 1..(i - 1) : s[j] # c
Before(s, c) == SubSeq(s, 1, FirstIndex(s, c) - 1)
After(s, c) == SubSeq(s, FirstIndex(s, c) + 1, Len(s))

\* the message of the first check of the grammar that u violates, "" if none
FirstViolation(u) ==
    IF Body(u) = None THEN ErrScheme
    ELSE LET r == Body(u)[1]
         IN  IF Count(r, "@") # 1 THEN ErrAt
             ELSE IF Count(Before(r, "@"), ":") # 1 THEN ErrAuth
             ELSE IF Count(After(r, "@"), "/") # 1 THEN ErrHostDb
             ELSE IF Count(Before(After(r, "@"), "/"), ":") # 1 THEN ErrHostPort
             ELSE ""

-----------------------------------------------------------------------------
(* C5 *)

\* C5: parse_connection_url succeeds if and only if the URL starts with
\* postgresql:// or postgres:// and the rest has exactly one '@', exactly one
\* ':' before it, exactly one '/' after it and exactly one ':' between the '@'
\* and the '/'; every other URL ends in an error and yields no parameters.
C5_ParseAcceptsExactGrammar ==
    ParseDone =>
        /\ (params # None) <=> (FirstViolation(database_url[1]) = "")
        /\ (params = None) => (error # None /\ pc \in {"return_err", "exited"})

C5_Witness ==
    /\ database_url = Some(UrlTwoAts)
    /\ params = None
    /\ error # None

-----------------------------------------------------------------------------
(* C7 *)

ParseErrors == {ErrScheme, ErrAt, ErrAuth, ErrHostDb, ErrHostPort}

\* the run resolves the round-trip template with a password that holds a colon
ColonPasswordRun ==
    /\ BothValid
    /\ \E h \in HostVals, p \in PortVals, d \in DbVals :
         /\ InTemplate = Template(h, p, d)
         /\ Count(h, "@") = 0 /\ Count(p, "@") = 0 /\ Count(d, "@") = 0
         /\ TokenFree(h) /\ TokenFree(p) /\ TokenFree(d)
    /\ Count(InCreds.username, "@") = 0
    /\ Count(InCreds.password, "@") = 0
    /\ Count(InCreds.password, ":") > 0

\* C7: the five checks of parse_connection_url have five different messages,
\* a rejected URL carries the message of the first check it violates in the
\* order scheme, '@', auth ':', '/', host ':', a URL with an accepted scheme
\* and zero or several '@' carries the '@' message whatever follows, and the
\* round-trip template resolved with a password that holds a colon carries
\* the auth message.
C7_FirstViolatedCheckReported ==
    /\ Cardinality(ParseErrors) = 5
    /\ ParseDone =>
        /\ params = None => ErrMsg = FirstViolation(database_url[1])
        /\ (Body(database_url[1]) # None /\ Count(Body(database_url[1])[1], "@") # 1)
              => ErrMsg = ErrAt
        /\ ColonPasswordRun => ErrMsg = ErrAuth

C7_Witness ==
    /\ ParseDone
    /\ ColonPasswordRun
    /\ InCreds.password = <<"p", ":", "a">>
    /\ ErrMsg = ErrAuth
    /\ pc = "exited"

-----------------------------------------------------------------------------
(* C6 *)

\* C6: parse_connection_url yields parameters only for a URL in which user,
\* password, host, port and database are all present, that carries no query
\* string and that does not end in a slash.
C6_NoOptionalComponents ==
    params # None =>
        /\ params[1].username # <<>>
        /\ params[1].password # <<>>
        /\ params[1].host # <<>>
        /\ params[1].port # <<>>
        /\ params[1].database # <<>>
        /\ Count(database_url[1], "?") = 0
        /\ database_url[1][Len(database_url[1])] # "/"

-----------------------------------------------------------------------------
(* C1, C2 *)

\* the run resolves the round-trip template for h, p, d with its credentials
RoundTripRun(h, p, d) ==
    /\ BothValid
    /\ InTemplate = Template(h, p, d)

RECURSIVE SubstituteVerbatim(_, _)
SubstituteVerbatim(t, c) ==
    IF t = <<>> THEN <<>>
    ELSE IF HasPrefix(t, TokenUsername)
         THEN c.username \o SubstituteVerbatim(SubSeq(t, Len(TokenUsername) + 1, Len(t)), c)
    ELSE IF HasPrefix(t, TokenPassword)
         THEN c.password \o SubstituteVerbatim(SubSeq(t, Len(TokenPassword) + 1, Len(t)), c)
    ELSE <<Head(t)>> \o SubstituteVerbatim(Tail(t), c)

\* C2: the resolved URL is the template with every {{username}} and every
\* {{password}} replaced by the credential, the credential values inserted
\* verbatim: a placeholder inside an inserted value is not expanded.
C2_CredentialsInsertedVerbatim ==
    database_url # None =>
        database_url[1] = SubstituteVerbatim(InTemplate, InCreds)

-----------------------------------------------------------------------------
(* C3, C4 *)

\* C3: a run that ends in this program (no hand-off to the client) has
\* written nothing to stdout, has not changed the environment and has
\* started no process.
C3_NoEffectOnFailure ==
    pc = "exited" =>
        /\ stdout = <<>>
        /\ env = None
        /\ image = "connect-db"

Flags == {<<"-","h">>, <<"-","p">>, <<"-","U">>, <<"-","d">>}

-----------------------------------------------------------------------------
(* C8 *)

ErrReadConfig == [msg |-> "Failed to read config file: ",
                  detail |-> ".vault/secrets/" \o database_name \o ".db.json"]
ErrReadCreds == [msg |-> "Failed to read credentials file: ",
                 detail |-> ".vault/secrets/" \o database_name \o ".db-role.json"]
ErrParseConfig == [msg |-> "Failed to parse config file: ",
                   detail |-> ".vault/secrets/" \o database_name \o ".db.json"]
ErrParseCreds == [msg |-> "Failed to parse credentials file: ",
                  detail |-> ".vault/secrets/" \o database_name \o ".db-role.json"]

\* load_database_config has returned
LoadDone == pc # "load"

\* the error it returned, None when it returned the pair of records
LoadError == IF config = None THEN error ELSE None

\* C8 as stated: for every combination, a missing file yields a read error
\* naming a missing file, a malformed file yields a parse error naming a
\* malformed file, and the records are returned only when both are valid.
C8_EachFaultReported ==
    LoadDone =>
        /\ (ConfigFile = Missing \/ CredsFile = Missing)
              => \/ ConfigFile = Missing /\ LoadError = Some(ErrReadConfig)
                 \/ CredsFile = Missing /\ LoadError = Some(ErrReadCreds)
        /\ (ConfigFile = Malformed \/ CredsFile = Malformed)
              => \/ ConfigFile = Malformed /\ LoadError = Some(ErrParseConfig)
                 \/ CredsFile = Malformed /\ LoadError = Some(ErrParseCreds)
        /\ (config # None /\ credentials # None) <=> BothValid

\* C8 amended: both files are read before either is parsed, so the error is
\* the read error naming the first missing file (config, then credentials)
\* when a file is missing, otherwise the parse error naming the first
\* malformed file (config, then credentials); the records are returned
\* exactly when both files are readable and well-formed.
C8_ReadErrorsBeforeParseErrors ==
    LoadDone =>
        /\ ConfigFile = Missing => LoadError = Some(ErrReadConfig)
        /\ (ConfigFile # Missing /\ CredsFile = Missing)
              => LoadError = Some(ErrReadCreds)
        /\ (ConfigFile = Malformed /\ CredsFile # Missing)
              => LoadError = Some(ErrParseConfig)
        /\ (ConfigFile.kind = "json" /\ CredsFile = Malformed)
              => LoadError = Some(ErrParseCreds)
        /\ BothValid
              => /\ config = Some(ConfigFile.value)
                 /\ credentials = Some(CredsFile.value)
        /\ (config # None /\ credentials # None) <=> BothValid
        /\ (config = None) <=> (credentials = None)

C8_Witness ==
    /\ pc = "exited"
    /\ ConfigFile = Malformed
    /\ CredsFile = Missing
    /\ error = Some(ErrReadCreds)

-----------------------------------------------------------------------------
(* C9, C10 *)

LoadErrors == {"Failed to read config file: ", "Failed to read credentials file: ",
               "Failed to parse config file: ", "Failed to parse credentials file: "}

\* C9: the stages run in the order load, substitute/parse, exec: a later
\* stage has acted only if every earlier one succeeded, and after a failure
\* nothing of a later stage has happened; a run that ends in this program
\* ends with an error and a nonzero exit status; a failed exec reports the
\* OS error and leaves the process image alone; status 0 is never produced.
C9_PipelineFailsFast ==
    /\ database_url # None => (config # None /\ credentials # None)
    /\ params # None => database_url # None
    /\ (stdout # <<>> \/ cmd # None \/ env # None \/ image # "connect-db")
          => params # None
    /\ pc \in {"exec", "replaced"} => (config # None /\ params # None /\ cmd # None)
    /\ ErrMsg \in LoadErrors
          => /\ config = None /\ credentials = None /\ database_url = None
             /\ params = None /\ cmd = None /\ stdout = <<>> /\ env = None
             /\ image = "connect-db"
    /\ ErrMsg \in ParseErrors
          => /\ params = None /\ cmd = None /\ stdout = <<>> /\ env = None
             /\ image = "connect-db"
    /\ ErrMsg = ErrExec
          => /\ error[1].detail \in OsErrors
             /\ image = "connect-db"
             /\ pc \in {"return_err", "exited"}
    /\ error # None => pc \in {"return_err", "exited"}
    /\ pc = "exited" <=> exit_code # None
    /\ pc = "exited" => (error # None /\ exit_code[1] # 0)
    /\ exit_code # Some(0)
    /\ image = "psql" <=> pc = "replaced"

C9_Witness ==
    /\ pc = "exited"
    /\ ErrMsg = ErrExec
    /\ exit_code = Some(1)
    /\ image = "connect-db"

\* C10 as stated: no step of the program other than the exec attempt is taken
\* while the environment holds the password.
C10_OnlyExecSeesPassword ==
    [][env # None => pc = "exec"]_vars

\* C10 amended: PGPASSWORD is written only after loading and parsing have
\* succeeded and the exec attempt is the next step; while the environment
\* holds the password the program is at the exec attempt, has been replaced,
\* or is returning the error of a failed exec and exiting.
C10_ExecFollowsSetVar ==
    env # None =>
        /\ config # None /\ params # None
        /\ env = Some(params[1].password)
        /\ \/ pc \in {"exec", "replaced"}
           \/ pc \in {"return_err", "exited"} /\ ErrMsg = ErrExec

C10_Witness ==
    /\ env # None
    /\ pc = "exited"
    /\ ErrMsg = ErrExec

====
